---- MODULE Spec2Model ----
(***************************************************************************)
(* USB joystick adapter firmware (retronicdesign USBJoystickAdapter v3.3). *)
(*                                                                         *)
(* The model covers the controller drivers (Sega Genesis pad, ColecoVision *)
(* controller) and the report-scheduling main loop with its USB callbacks. *)
(* Integers of the firmware keep their C width: uchar values live in       *)
(* 0..255, "unsigned int" is 16 bits wide on the AVR target.               *)
(***************************************************************************)
EXTENDS Integers, Sequences, FiniteSets, TLC

(***************************************************************************)
(* Bounds of the model.                                                    *)
(***************************************************************************)
\* number of controller lines the environment may pull low in the driver
\* specification (the first MaxLines entries of SegaLines / ColecoLines)
MaxLines == 4

(***************************************************************************)
(* C bit operators on non-negative integers.                               *)
(***************************************************************************)
\* each operator takes its operands through a singleton set, which binds
\* x and y to the operands' values
RECURSIVE BitAnd(_, _)
BitAnd(a, b) ==
    CHOOSE r \in {IF x = 0 \/ y = 0 THEN 0
                  ELSE (x % 2) * (y % 2) + 2 * BitAnd(x \div 2, y \div 2) :
                  x \in {a}, y \in {b}} : TRUE

RECURSIVE BitOr(_, _)
BitOr(a, b) ==
    CHOOSE r \in {IF x = 0 THEN y
                  ELSE IF y = 0 THEN x
                  ELSE (IF x % 2 = 1 \/ y % 2 = 1 THEN 1 ELSE 0)
                       + 2 * BitOr(x \div 2, y \div 2) :
                  x \in {a}, y \in {b}} : TRUE

RECURSIVE BitXor(_, _)
BitXor(a, b) ==
    CHOOSE r \in {IF x = 0 THEN y
                  ELSE IF y = 0 THEN x
                  ELSE ((x + y) % 2) + 2 * BitXor(x \div 2, y \div 2) :
                  x \in {a}, y \in {b}} : TRUE

Shl(a, n) == a * (2 ^ n)

Shr(a, n) == a \div (2 ^ n)

\* ~x of a 16-bit unsigned int (also of a uchar promoted to int, as far as
\* the low 16 bits are concerned)
Not16(x) == 65535 - x

(***************************************************************************)
(* AVR port bit numbers used by the drivers.                               *)
(***************************************************************************)
PB0 == 0
PB1 == 1
PB2 == 2
PB3 == 3
PB4 == 4
PB5 == 5
PC2 == 2

(***************************************************************************)
(* Sega Genesis driver (sega.c).                                           *)
(*                                                                         *)
(* A sample is the six port reads of one SegaUpdate:                       *)
(*   h0B, h0C  PINB, PINC read with SELECT high in pass i = 0              *)
(*   l0B, l0C  PINB, PINC read with SELECT low  in pass i = 0              *)
(*   l1B       PINB read with SELECT low  in pass i = 1                    *)
(*   h2B       PINB read with SELECT high in pass i = 2                    *)
(***************************************************************************)
SEGA_REPORT_SIZE == 4

SegaInitState ==
    [last_update_state |-> 0, last_reported_state |-> 0, but3_6 |-> 0]

SegaUpdate(s, smp) ==
    LET st0  == BitOr(BitOr(0, BitAnd(smp.h0B, 31)),
                      Shl(BitAnd(smp.h0C, 4), 3))
        st0l == BitOr(st0, BitOr(Shl(BitAnd(smp.l0B, Shl(1, PB4)), 2),
                                 Shl(BitAnd(smp.l0C, Shl(1, PC2)), 5)))
        b36  == BitAnd(smp.l1B, 15)
        st2  == BitOr(st0l, Shl(BitAnd(smp.h2B, 15), 8))
    IN  [s EXCEPT !.last_update_state = st2 % 65536, !.but3_6 = b36]

SegaChanged(s, id) == s.last_update_state # s.last_reported_state

\* SegaReportBytes with the axes centred on 0x80
SegaReportBytesCentre80(s) ==
    LET tmp  == Not16(s.last_update_state)
        Set(m) == BitAnd(tmp, m) # 0
        x0   == IF Set(Shl(1, PB3)) THEN 255 ELSE 128
        x    == IF Set(Shl(1, PB2)) THEN 0 ELSE x0
        y0   == IF Set(Shl(1, PB1)) THEN 255 ELSE 128
        y    == IF Set(Shl(1, PB0)) THEN 0 ELSE y0
        b2a  == (IF Set(Shl(1, 6)) THEN Shl(1, 5) ELSE 0)
                + (IF Set(Shl(1, 4)) THEN Shl(1, 2) ELSE 0)
                + (IF Set(Shl(1, 5)) THEN Shl(1, 3) ELSE 0)
        b3a  == IF Set(Shl(1, 7)) THEN Shl(1, 1) ELSE 0
        six  == s.but3_6 = 0
        b2   == b2a
                + (IF six /\ Set(Shl(1, 10)) THEN Shl(1, 0) ELSE 0)
                + (IF six /\ Set(Shl(1, 9)) THEN Shl(1, 6) ELSE 0)
                + (IF six /\ Set(Shl(1, 11)) THEN Shl(1, 1) ELSE 0)
        b3   == b3a + (IF six /\ Set(Shl(1, 8)) THEN Shl(1, 0) ELSE 0)
    IN  <<x, y, b2, b3>>

\* SegaReportBytes without the test of but3_6
SegaReportBytesAlways6(s) ==
    LET tmp  == Not16(s.last_update_state)
        Set(m) == BitAnd(tmp, m) # 0
        x0   == IF Set(Shl(1, PB3)) THEN 255 ELSE 127
        x    == IF Set(Shl(1, PB2)) THEN 0 ELSE x0
        y0   == IF Set(Shl(1, PB1)) THEN 255 ELSE 127
        y    == IF Set(Shl(1, PB0)) THEN 0 ELSE y0
        b2a  == (IF Set(Shl(1, 6)) THEN Shl(1, 5) ELSE 0)
                + (IF Set(Shl(1, 4)) THEN Shl(1, 2) ELSE 0)
                + (IF Set(Shl(1, 5)) THEN Shl(1, 3) ELSE 0)
        b3a  == IF Set(Shl(1, 7)) THEN Shl(1, 1) ELSE 0
        b2   == b2a
                + (IF Set(Shl(1, 10)) THEN Shl(1, 0) ELSE 0)
                + (IF Set(Shl(1, 9)) THEN Shl(1, 6) ELSE 0)
                + (IF Set(Shl(1, 11)) THEN Shl(1, 1) ELSE 0)
        b3   == b3a + (IF Set(Shl(1, 8)) THEN Shl(1, 0) ELSE 0)
    IN  <<x, y, b2, b3>>

\* the four report bytes SegaBuildReport writes into a non-null buffer
SegaReportBytes(s) ==
    LET tmp  == Not16(s.last_update_state)
        Set(m) == BitAnd(tmp, m) # 0
        x0   == IF Set(Shl(1, PB3)) THEN 255 ELSE 127
        x    == IF Set(Shl(1, PB2)) THEN 0 ELSE x0
        y0   == IF Set(Shl(1, PB1)) THEN 255 ELSE 127
        y    == IF Set(Shl(1, PB0)) THEN 0 ELSE y0
        b2a  == (IF Set(Shl(1, 6)) THEN Shl(1, 5) ELSE 0)
                + (IF Set(Shl(1, 4)) THEN Shl(1, 2) ELSE 0)
                + (IF Set(Shl(1, 5)) THEN Shl(1, 3) ELSE 0)
        b3a  == IF Set(Shl(1, 7)) THEN Shl(1, 1) ELSE 0
        six  == s.but3_6 = 0
        b2   == b2a
                + (IF six /\ Set(Shl(1, 10)) THEN Shl(1, 0) ELSE 0)
                + (IF six /\ Set(Shl(1, 9)) THEN Shl(1, 6) ELSE 0)
                + (IF six /\ Set(Shl(1, 11)) THEN Shl(1, 1) ELSE 0)
        b3   == b3a + (IF six /\ Set(Shl(1, 8)) THEN Shl(1, 0) ELSE 0)
    IN  <<x, y, b2, b3>>

\* SegaBuildReport acknowledging the sample only when it wrote a report
SegaBuildReportInIf(s, hasBuf, id) ==
    [st  |-> IF hasBuf THEN [s EXCEPT !.last_reported_state = s.last_update_state]
             ELSE s,
     buf |-> IF hasBuf THEN SegaReportBytes(s) ELSE << >>,
     len |-> SEGA_REPORT_SIZE]

\* result of SegaBuildReport: the new driver state, the bytes written
\* (<<>> when the buffer pointer is null) and the returned length
SegaBuildReport(s, hasBuf, id) ==
    [st  |-> [s EXCEPT !.last_reported_state = s.last_update_state],
     buf |-> IF hasBuf THEN SegaReportBytes(s) ELSE << >>,
     len |-> SEGA_REPORT_SIZE]

(***************************************************************************)
(* ColecoVision driver (colecovision.c).                                   *)
(*                                                                         *)
(* A sample is the three port reads of one colecovisionUpdate:             *)
(*   b1  PINB read with sub controller 1 selected                          *)
(*   b2  PINB read with sub controller 2 selected                          *)
(*   c2  PINC read with sub controller 2 selected                          *)
(***************************************************************************)
MULT == 32

COLECO_REPORT_SIZE == 5

\* QEM with the signs of the transitions between 0 and 1 exchanged
QEMSwapped == <<0, -1, -1, 2, 1, 0, 2, 1, 1, 2, 0, -1, 2, -1, 1, 0>>

\* Quadrature Encoder Matrix, QEM[k] of the source is QEM[k + 1] here
QEM == <<0, 1, -1, 2, -1, 0, 2, 1, 1, 2, 0, -1, 2, -1, 1, 0>>

\* the table of the "QEM explanation" comment: QEMDoc[previous + 1][actual + 1],
\* "X" where the comment has X
QEMDoc ==
    << <<0, 1, -1, "X">>,
       <<-1, 0, "X", 1>>,
       <<1, "X", 0, -1>>,
       <<"X", -1, 1, 0>> >>

\* delta of colecovisionUpdate for the actual and the previous 2-bit sample
ColecoDelta(spn, old) == QEM[BitOr(spn, Shl(old, 2)) + 1] * MULT

ColecoPowerOn ==
    [last_update_state |-> <<0, 0>>, last_reported_state |-> <<0, 0>>,
     wheel_pos |-> 0, spinner |-> 0, old_spinner |-> 0, delta |-> 0]

\* the two port reads kept in last_update_state, and the spinner sample
ColecoRead(smp) ==
    <<BitAnd(smp.b1, 63),
      BitOr(BitAnd(smp.b2, 31), Shl(BitAnd(smp.c2, Shl(1, PC2)), 3)) % 256>>

ColecoSpinner(u) ==
    BitOr(Shr(BitAnd(Not16(u[1]), Shl(1, PB5)), 5),
          Shr(BitAnd(Not16(u[2]), Shl(1, PB5)), 4))

\* colecovisionUpdate without the clipping of the maximum position
colecovisionUpdateNoClip(s, smp) ==
    LET u   == ColecoRead(smp)
        spn == ColecoSpinner(u)
        d   == ColecoDelta(spn, s.old_spinner)
        w   == s.wheel_pos + d
        w2  == IF w < 0 THEN 0 ELSE w
    IN  [s EXCEPT !.last_update_state = u,
                  !.spinner = spn,
                  !.delta = d,
                  !.wheel_pos = w2,
                  !.old_spinner = spn]

colecovisionUpdate(s, smp) ==
    LET u   == ColecoRead(smp)
        spn == ColecoSpinner(u)
        d   == ColecoDelta(spn, s.old_spinner)
        w   == s.wheel_pos + d
        w1  == IF w > 255 THEN 255 ELSE w
        w2  == IF w1 < 0 THEN 0 ELSE w1
    IN  [s EXCEPT !.last_update_state = u,
                  !.spinner = spn,
                  !.delta = d,
                  !.wheel_pos = w2,
                  !.old_spinner = spn]

\* colecovisionInit: one update for the spinner's initial condition, then
\* the wheel is centred
colecovisionInit(s, smp) ==
    [colecovisionUpdate(s, smp) EXCEPT !.wheel_pos = 128]

colecovisionChanged(s, id) ==
    \/ s.last_update_state[1] # s.last_reported_state[1]
    \/ s.last_update_state[2] # s.last_reported_state[2]

\* ColecoKeyBits with '#' on the bit of '0'
ColecoKeyBitsShared(code) ==
    CASE code = 8  -> <<4, 0>>
      [] code = 4  -> <<8, 0>>
      [] code = 9  -> <<16, 0>>
      [] code = 7  -> <<32, 0>>
      [] code = 6  -> <<64, 0>>
      [] code = 1  -> <<128, 0>>
      [] code = 12 -> <<0, 1>>
      [] code = 14 -> <<0, 2>>
      [] code = 2  -> <<0, 4>>
      [] code = 10 -> <<0, 8>>
      [] code = 3  -> <<0, 16>>
      [] code = 5  -> <<0, 16>>
      [] code = 13 -> <<0, 64>>
      [] code = 11 -> <<0, 128>>
      [] OTHER     -> <<0, 0>>

\* the bits the key-pad switch adds to report bytes [3] and [4]
ColecoKeyBits(code) ==
    CASE code = 8  -> <<4, 0>>
      [] code = 4  -> <<8, 0>>
      [] code = 9  -> <<16, 0>>
      [] code = 7  -> <<32, 0>>
      [] code = 6  -> <<64, 0>>
      [] code = 1  -> <<128, 0>>
      [] code = 12 -> <<0, 1>>
      [] code = 14 -> <<0, 2>>
      [] code = 2  -> <<0, 4>>
      [] code = 10 -> <<0, 8>>
      [] code = 3  -> <<0, 16>>
      [] code = 5  -> <<0, 32>>
      [] code = 13 -> <<0, 64>>
      [] code = 11 -> <<0, 128>>
      [] OTHER     -> <<0, 0>>

\* ColecoReportBytes with the axes centred on 0x7F
ColecoReportBytesCentre7F(s) ==
    LET tmp == BitXor(s.last_update_state[1], 255)
        but == BitXor(s.last_update_state[2], 255)
        x0  == IF BitAnd(tmp, Shl(1, PB3)) # 0 THEN 255 ELSE 127
        x   == IF BitAnd(tmp, Shl(1, PB2)) # 0 THEN 0 ELSE x0
        y0  == IF BitAnd(tmp, Shl(1, PB1)) # 0 THEN 255 ELSE 127
        y   == IF BitAnd(tmp, Shl(1, PB0)) # 0 THEN 0 ELSE y0
        f   == (IF BitAnd(tmp, Shl(1, PB4)) # 0 THEN 1 ELSE 0)
               + (IF BitAnd(but, Shl(1, PB4)) # 0 THEN 2 ELSE 0)
        k   == ColecoKeyBits(BitAnd(but, 15))
    IN  <<x, y, s.wheel_pos % 256, BitOr(f, k[1]), k[2]>>

\* the five report bytes colecovisionBuildReport writes into a non-null buffer
ColecoReportBytes(s) ==
    LET tmp == BitXor(s.last_update_state[1], 255)
        but == BitXor(s.last_update_state[2], 255)
        x0  == IF BitAnd(tmp, Shl(1, PB3)) # 0 THEN 255 ELSE 128
        x   == IF BitAnd(tmp, Shl(1, PB2)) # 0 THEN 0 ELSE x0
        y0  == IF BitAnd(tmp, Shl(1, PB1)) # 0 THEN 255 ELSE 128
        y   == IF BitAnd(tmp, Shl(1, PB0)) # 0 THEN 0 ELSE y0
        f   == (IF BitAnd(tmp, Shl(1, PB4)) # 0 THEN 1 ELSE 0)
               + (IF BitAnd(but, Shl(1, PB4)) # 0 THEN 2 ELSE 0)
        k   == ColecoKeyBits(BitAnd(but, 15))
    IN  <<x, y, s.wheel_pos % 256, BitOr(f, k[1]), k[2]>>

colecovisionBuildReport(s, hasBuf, id) ==
    [st  |-> [s EXCEPT !.last_reported_state = s.last_update_state],
     buf |-> IF hasBuf THEN ColecoReportBytes(s) ELSE << >>,
     len |-> COLECO_REPORT_SIZE]

(***************************************************************************)
(* Controller lines as the environment drives them.  A line is a pair      *)
(* <<port read, mask>>: pulling the line low clears the mask's bits in     *)
(* that read.  All lines idle high (pull-ups).  PC0 is wired to PC2.  The   *)
(* 3/6 discriminator is the four direction lines in the SELECT-low phase   *)
(* of pass 1, which a 6-button pad pulls low together.                     *)
(***************************************************************************)
SegaLines ==
    << <<"h0B", 8>>,  (* RIGHT *)          <<"l1B", 15>>, (* 3/6 discriminator *)
       <<"h2B", 4>>,  (* X *)              <<"l0B", 16>>, (* BUTA *)
       <<"h0C", 5>>,  (* BUTC *)           <<"l0C", 5>>,  (* START *)
       <<"h0B", 1>>,  (* UP *)             <<"h2B", 8>>,  (* MODE *)
       <<"h0B", 16>>, (* BUTB *)           <<"h0B", 2>>,  (* DOWN *)
       <<"h0B", 4>>,  (* LEFT *)           <<"h2B", 1>>,  (* Z *)
       <<"h2B", 2>>,  (* Y *)
       \* the discriminator again, as its lowest line and the three others
       \* (never driven together with line 2)
       <<"l1B", 1>>,                       <<"l1B", 14>> >>

ColecoLines ==
    << <<"b1", 8>>,   (* RIGHT *)          <<"b1", 16>>,  (* left fire *)
       <<"b1", 32>>,  (* quadrature A *)   <<"c2", 5>>,   (* quadrature B *)
       <<"b2", 8>>,   (* key-pad bit 3 *)  <<"b2", 16>>,  (* right fire *)
       <<"b1", 1>>,   (* UP *)             <<"b2", 4>>,
       <<"b2", 2>>,                        <<"b2", 1>>,
       <<"b1", 2>>,   (* DOWN *)           <<"b1", 4>>    (* LEFT *) >>

RECURSIVE LowBits(_, _, _, _)
LowBits(lines, low, f, k) ==
    IF k = 0 THEN 0
    ELSE (IF k \in low /\ lines[k][1] = f THEN lines[k][2] ELSE 0)
         + LowBits(lines, low, f, k - 1)

Min(a, b) == IF a < b THEN a ELSE b

\* the port reads of one SegaUpdate when the lines in low are pulled low;
\* PB5 is the SELECT output and reads back as it was written
SegaSample(low) ==
    [h0B |-> 63 - LowBits(SegaLines, low, "h0B", Len(SegaLines)),
     h0C |-> 15 - LowBits(SegaLines, low, "h0C", Len(SegaLines)),
     l0B |-> 31 - LowBits(SegaLines, low, "l0B", Len(SegaLines)),
     l0C |-> 15 - LowBits(SegaLines, low, "l0C", Len(SegaLines)),
     l1B |-> 31 - LowBits(SegaLines, low, "l1B", Len(SegaLines)),
     h2B |-> 63 - LowBits(SegaLines, low, "h2B", Len(SegaLines))]

ColecoSample(low) ==
    [b1 |-> 63 - LowBits(ColecoLines, low, "b1", Len(ColecoLines)),
     b2 |-> 63 - LowBits(ColecoLines, low, "b2", Len(ColecoLines)),
     c2 |-> 5 - LowBits(ColecoLines, low, "c2", Len(ColecoLines))]

SegaSamples(n) ==
    {SegaSample(low) : low \in SUBSET (1..Min(n, Len(SegaLines)))}

ColecoSamples(n) ==
    {ColecoSample(low) : low \in SUBSET (1..Min(n, Len(ColecoLines)))}

\* no port has been read yet
NoSample == [none |-> 0]

(***************************************************************************)
(* The Gamepad interface (gamepad.h function pointers), dispatched on the  *)
(* driver the firmware image was built with.                               *)
(***************************************************************************)
Gamepads == {"Sega", "ColecoVision"}

num_reports(g) == 1

PadSamples(g, n) == IF g = "Sega" THEN SegaSamples(n) ELSE ColecoSamples(n)

PadUpdate(g, s, smp) ==
    IF g = "Sega" THEN SegaUpdate(s, smp) ELSE colecovisionUpdate(s, smp)

PadChanged(g, s, id) ==
    IF g = "Sega" THEN SegaChanged(s, id) ELSE colecovisionChanged(s, id)

PadBuildReport(g, s, hasBuf, id) ==
    IF g = "Sega" THEN SegaBuildReport(s, hasBuf, id)
    ELSE colecovisionBuildReport(s, hasBuf, id)

(***************************************************************************)
(* Firmware state (main.c) and the hardware and Transport around it.       *)
(***************************************************************************)
VARIABLES
    curGamepad,        \* the driver of this firmware image
    drv,               \* the driver's static variables
    idleRates,         \* idleRates[k] of the source is idleRates[k + 1]
    idleCounters,      \* main's idleCounters, same indexing
    must_report,       \* main's bit mask of report ids to transmit
    first_run,         \* main's first_run
    i,                 \* main's loop index inside the send loop
    jumptobootloader,  \* the bootloader-jump flag
    reportBuffer,      \* buffer of the interrupt reports
    setupBuffer,       \* buffer of GET_REPORT answers
    BootKey,           \* the 16-bit word at 0x013b
    usbDisconnected,   \* DDRD drives the USB pins (forced disconnect)
    pc,                \* main's position
    TOV0,              \* timer 0 overflow flag (mustRunLoop)
    OCF2A,             \* timer 2 compare flag (mustPollController)
    txBusy,            \* Transport: the interrupt send slot is occupied
    rwPending,         \* Transport: a SET_REPORT data stage is outstanding
    \* ---- history of the run, read by the properties only ----
    pins,              \* the port reads of the last update()
    reportedPins,      \* pins when the last report was built
    lastOp,            \* the last driver operation called (driver specification)
    sent,              \* mask of the ids handed to the Transport in this pass
    markChanged,       \* mask of the ids marked because changed() was true
    markForced,        \* mask of the ids marked by the idle countdown
    forcedAge,         \* idle ticks since id 1 was force-marked (-1: none yet
                       \* under the present idle rate)
    sinceWdt           \* main-loop steps since the last wdt_reset()

padVars   == <<curGamepad, drv, pins, reportedPins, lastOp>>
idleVars  == <<idleRates, idleCounters, forcedAge>>
loopVars  == <<must_report, first_run, i, pc, sent, markChanged, markForced,
               sinceWdt>>
usbVars   == <<reportBuffer, setupBuffer, txBusy, rwPending>>
bootVars  == <<jumptobootloader, BootKey, usbDisconnected>>
timerVars == <<TOV0, OCF2A>>

vars == <<padVars, idleVars, loopVars, usbVars, bootVars, timerVars>>

MAX_REPORTS == 8

BOOT_MAGIC == 48879  \* 0xBEEF

BOOT_SENTINEL == 90  \* 0x5A

\* V-USB request codes (usbdrv.h)
USBRQ_TYPE_MASK == 96

USBRQ_TYPE_CLASS == 32

USBRQ_HID_GET_REPORT == 1

USBRQ_HID_GET_IDLE == 2

USBRQ_HID_SET_REPORT == 9

USBRQ_HID_SET_IDLE == 10

USB_NO_MSG == 255

USBRQ_TYPE_STANDARD == 0

USBRQ_GET_DESCRIPTOR == 6

USBDESCR_DEVICE == 1

USBDESCR_CONFIG == 2

USBDESCR_HID_REPORT == 34  \* 0x22

Zeros(n) == [k \in 1..n |-> 0]

\* bytes written to the start of buf
WriteBuf(buf, bytes) ==
    [k \in 1..Len(buf) |-> IF k <= Len(bytes) THEN bytes[k] ELSE buf[k]]

(***************************************************************************)
(* main() up to the event loop: the state the loop starts in.  The         *)
(* ColecoVision init samples the lines once; the Sega init reads nothing.  *)
(***************************************************************************)
MainInit(n) ==
    /\ curGamepad \in Gamepads
    /\ \E smp \in PadSamples(curGamepad, n) :
          IF curGamepad = "Sega"
          THEN drv = SegaInitState /\ pins = NoSample
          ELSE drv = colecovisionInit(ColecoPowerOn, smp) /\ pins = smp
    /\ reportedPins = NoSample
    /\ lastOp = "init"
    /\ idleRates = Zeros(MAX_REPORTS)
    /\ idleCounters = Zeros(MAX_REPORTS)
    /\ forcedAge = -1
    /\ must_report = 0
    /\ first_run = 1
    /\ i = 0
    /\ pc = "top"
    /\ sent = 0
    /\ markChanged = 0
    /\ markForced = 0
    /\ sinceWdt = 0
    /\ reportBuffer = Zeros(6)
    /\ setupBuffer = Zeros(6)
    /\ txBusy = FALSE
    /\ rwPending = FALSE
    /\ jumptobootloader = 0
    /\ BootKey = 0
    /\ usbDisconnected = FALSE
    /\ TOV0 = FALSE
    /\ OCF2A = FALSE

(***************************************************************************)
(* USB callbacks of main.c.                                                *)
(***************************************************************************)
\* the sizes main() takes from the gamepad and from its own configuration
\* descriptor (9 + 9 + 9 + 7 bytes, with the interrupt-in endpoint)
rt_usbDeviceDescriptorSize == 18

rt_usbHidReportDescriptorSize == IF curGamepad = "Sega" THEN 57 ELSE 59

sizeof_my_usbDescriptorConfiguration == 34

\* usbFunctionDescriptor answering every standard request with the
\* configuration descriptor
usbFunctionDescriptorAnyType(rq) ==
    IF BitAnd(rq.bmRequestType, USBRQ_TYPE_MASK) # USBRQ_TYPE_STANDARD
    THEN [len |-> 0, usbMsgPtr |-> <<"none", 0>>]
    ELSE IF rq.bRequest = USBRQ_GET_DESCRIPTOR /\ rq.wValue1 = USBDESCR_DEVICE
    THEN [len |-> rt_usbDeviceDescriptorSize,
          usbMsgPtr |-> <<"rt_usbDeviceDescriptor", 0>>]
    ELSE IF rq.bRequest = USBRQ_GET_DESCRIPTOR /\ rq.wValue1 = USBDESCR_HID_REPORT
    THEN [len |-> rt_usbHidReportDescriptorSize,
          usbMsgPtr |-> <<"rt_usbHidReportDescriptor", 0>>]
    ELSE [len |-> sizeof_my_usbDescriptorConfiguration,
          usbMsgPtr |-> <<"my_usbDescriptorConfiguration", 0>>]

\* what usbFunctionDescriptor returns for the setup packet rq, and where it
\* leaves usbMsgPtr ("none": not written); wValue1 is the descriptor type
usbFunctionDescriptor(rq) ==
    IF BitAnd(rq.bmRequestType, USBRQ_TYPE_MASK) # USBRQ_TYPE_STANDARD
    THEN [len |-> 0, usbMsgPtr |-> <<"none", 0>>]
    ELSE IF rq.bRequest = USBRQ_GET_DESCRIPTOR /\ rq.wValue1 = USBDESCR_DEVICE
    THEN [len |-> rt_usbDeviceDescriptorSize,
          usbMsgPtr |-> <<"rt_usbDeviceDescriptor", 0>>]
    ELSE IF rq.bRequest = USBRQ_GET_DESCRIPTOR /\ rq.wValue1 = USBDESCR_HID_REPORT
    THEN [len |-> rt_usbHidReportDescriptorSize,
          usbMsgPtr |-> <<"rt_usbHidReportDescriptor", 0>>]
    ELSE IF rq.bRequest = USBRQ_GET_DESCRIPTOR /\ rq.wValue1 = USBDESCR_CONFIG
    THEN [len |-> sizeof_my_usbDescriptorConfiguration,
          usbMsgPtr |-> <<"my_usbDescriptorConfiguration", 0>>]
    ELSE [len |-> 0, usbMsgPtr |-> <<"none", 0>>]

IsClass(rq) == BitAnd(rq.bmRequestType, USBRQ_TYPE_MASK) = USBRQ_TYPE_CLASS

\* usbFunctionSetupRet whose GET_IDLE does not test the report id
usbFunctionSetupRetNoRange(rq) ==
    LET id == rq.wValue0 IN
    IF IsClass(rq) /\ rq.bRequest = USBRQ_HID_GET_REPORT
    THEN [len |-> PadBuildReport(curGamepad, drv, TRUE, id).len,
          usbMsgPtr |-> <<"setupBuffer", 0>>]
    ELSE IF IsClass(rq) /\ rq.bRequest = USBRQ_HID_SET_REPORT
    THEN [len |-> USB_NO_MSG, usbMsgPtr |-> <<"setupBuffer", 0>>]
    ELSE IF IsClass(rq) /\ rq.bRequest = USBRQ_HID_GET_IDLE
    THEN [len |-> 1, usbMsgPtr |-> <<"idleRates", id - 1>>]
    ELSE [len |-> 0, usbMsgPtr |-> <<"setupBuffer", 0>>]

\* what usbFunctionSetup returns for the setup packet rq, and where it
\* leaves usbMsgPtr; rq holds bmRequestType, bRequest and the two bytes of
\* wValue (wValue0: report id, wValue1: idle rate or report type)
usbFunctionSetupRet(rq) ==
    LET id == rq.wValue0 IN
    IF IsClass(rq) /\ rq.bRequest = USBRQ_HID_GET_REPORT
    THEN [len |-> PadBuildReport(curGamepad, drv, TRUE, id).len,
          usbMsgPtr |-> <<"setupBuffer", 0>>]
    ELSE IF IsClass(rq) /\ rq.bRequest = USBRQ_HID_SET_REPORT
    THEN [len |-> USB_NO_MSG, usbMsgPtr |-> <<"setupBuffer", 0>>]
    ELSE IF IsClass(rq) /\ rq.bRequest = USBRQ_HID_GET_IDLE
              /\ id > 0 /\ id <= MAX_REPORTS
    THEN [len |-> 1, usbMsgPtr |-> <<"idleRates", id - 1>>]
    ELSE [len |-> 0, usbMsgPtr |-> <<"setupBuffer", 0>>]

\* usbFunctionSetup building the GET_REPORT reply in reportBuffer
usbFunctionSetupOneBuffer(rq) ==
    LET id == rq.wValue0 IN
    IF IsClass(rq) /\ rq.bRequest = USBRQ_HID_GET_REPORT
    THEN LET r == PadBuildReport(curGamepad, drv, TRUE, id) IN
         /\ drv' = r.st
         /\ reportBuffer' = WriteBuf(reportBuffer, r.buf)
         /\ reportedPins' = pins
         /\ UNCHANGED <<setupBuffer, idleRates, forcedAge, lastOp>>
    ELSE IF IsClass(rq) /\ rq.bRequest = USBRQ_HID_SET_IDLE
    THEN /\ idleRates' =
              IF id = 0 THEN [k \in 1..MAX_REPORTS |-> rq.wValue1]
              ELSE IF id > 0 /\ id <= MAX_REPORTS
                   THEN [idleRates EXCEPT ![id] = rq.wValue1]
                   ELSE idleRates
         /\ forcedAge' = IF id = 0 \/ id = 1 THEN -1 ELSE forcedAge
         /\ UNCHANGED <<drv, setupBuffer, reportBuffer, reportedPins, lastOp>>
    ELSE UNCHANGED <<drv, setupBuffer, reportBuffer, reportedPins, lastOp,
                     idleRates, forcedAge>>

\* usbFunctionSetup whose SET_IDLE has no report id 0 for "all entries"
usbFunctionSetupNoAll(rq) ==
    LET id == rq.wValue0 IN
    IF IsClass(rq) /\ rq.bRequest = USBRQ_HID_GET_REPORT
    THEN LET r == PadBuildReport(curGamepad, drv, TRUE, id) IN
         /\ drv' = r.st
         /\ setupBuffer' = WriteBuf(setupBuffer, r.buf)
         /\ reportedPins' = pins
         /\ UNCHANGED <<reportBuffer, idleRates, forcedAge, lastOp>>
    ELSE IF IsClass(rq) /\ rq.bRequest = USBRQ_HID_SET_IDLE
    THEN /\ idleRates' =
              IF id > 0 /\ id <= MAX_REPORTS
              THEN [idleRates EXCEPT ![id] = rq.wValue1]
              ELSE idleRates
         /\ forcedAge' = IF id = 1 THEN -1 ELSE forcedAge
         /\ UNCHANGED <<drv, setupBuffer, reportBuffer, reportedPins, lastOp>>
    ELSE UNCHANGED <<drv, setupBuffer, reportBuffer, reportedPins, lastOp,
                     idleRates, forcedAge>>

\* what usbFunctionSetup does to the firmware's state
usbFunctionSetup(rq) ==
    LET id == rq.wValue0 IN
    IF IsClass(rq) /\ rq.bRequest = USBRQ_HID_GET_REPORT
    THEN LET r == PadBuildReport(curGamepad, drv, TRUE, id) IN
         /\ drv' = r.st
         /\ setupBuffer' = WriteBuf(setupBuffer, r.buf)
         /\ reportedPins' = pins
         /\ UNCHANGED <<reportBuffer, idleRates, forcedAge, lastOp>>
    ELSE IF IsClass(rq) /\ rq.bRequest = USBRQ_HID_SET_IDLE
    THEN /\ idleRates' =
              IF id = 0 THEN [k \in 1..MAX_REPORTS |-> rq.wValue1]
              ELSE IF id > 0 /\ id <= MAX_REPORTS
                   THEN [idleRates EXCEPT ![id] = rq.wValue1]
                   ELSE idleRates
         /\ forcedAge' = IF id = 0 \/ id = 1 THEN -1 ELSE forcedAge
         /\ UNCHANGED <<drv, setupBuffer, reportBuffer, reportedPins, lastOp>>
    ELSE UNCHANGED <<drv, setupBuffer, reportBuffer, reportedPins, lastOp,
                     idleRates, forcedAge>>

\* data0 is data[0] of the chunk the host wrote, len its length
usbFunctionWriteRet(data0, len) == len

\* usbFunctionWrite without the test of the first byte
usbFunctionWriteAny(data0, len) == jumptobootloader' = 1

usbFunctionWrite(data0, len) ==
    jumptobootloader' = IF data0 = BOOT_SENTINEL THEN 1 ELSE jumptobootloader

(***************************************************************************)
(* The Transport (V-USB), as far as the firmware sees it.                  *)
(***************************************************************************)
usbInterruptIsReady == ~txBusy

\* the first byte of a host write
WriteBytes == {0, 89, 90, 91, 255}

SetupRq(t, b, v0, v1) ==
    [bmRequestType |-> t, bRequest |-> b, wValue0 |-> v0, wValue1 |-> v1]

\* setup packets the host sends: the four HID class requests the firmware
\* knows, a class request it does not (GET_PROTOCOL), a vendor request
SetupRequests(ids, rates) ==
    {SetupRq(161, USBRQ_HID_GET_REPORT, id, 1) : id \in ids}
    \cup {SetupRq(33, USBRQ_HID_SET_REPORT, 0, 3)}
    \cup {SetupRq(161, USBRQ_HID_GET_IDLE, id, 0) : id \in ids}
    \cup {SetupRq(33, USBRQ_HID_SET_IDLE, id, r) : id \in ids, r \in rates}
    \cup {SetupRq(161, 3, 0, 0), SetupRq(64, USBRQ_HID_SET_IDLE, 1, 4)}

\* what usbPoll() may find to do: nothing, one setup packet for the
\* firmware, or the one-byte data stage of a SET_REPORT
HostRequests(ids, rates) ==
    {[kind |-> "none"]}
    \cup {[kind |-> "setup", rq |-> rq] : rq \in SetupRequests(ids, rates)}
    \cup {[kind |-> "write", data0 |-> b, len |-> 1] : b \in WriteBytes}

usbPoll(req) ==
    IF req.kind = "setup"
    THEN /\ usbFunctionSetup(req.rq)
         /\ rwPending' = (usbFunctionSetupRet(req.rq).len = USB_NO_MSG)
         /\ UNCHANGED jumptobootloader
    ELSE IF req.kind = "write"
    THEN /\ rwPending
         /\ usbFunctionWrite(req.data0, req.len)
         /\ rwPending' = (usbFunctionWriteRet(req.data0, req.len) = 0)
         /\ UNCHANGED <<drv, setupBuffer, reportBuffer, reportedPins, lastOp,
                        idleRates, forcedAge>>
    ELSE UNCHANGED <<drv, setupBuffer, reportBuffer, reportedPins, lastOp,
                     idleRates, forcedAge, rwPending, jumptobootloader>>

\* usbSetInterrupt(reportBuffer, len): the send slot is taken
usbSetInterrupt == txBusy' = TRUE

\* the host has polled the interrupt endpoint: the slot is free again
UsbIntrIn ==
    /\ txBusy
    /\ ~usbDisconnected
    /\ txBusy' = FALSE
    /\ UNCHANGED <<padVars, idleVars, loopVars, bootVars, timerVars,
                   reportBuffer, setupBuffer, rwPending>>

(***************************************************************************)
(* The two hardware timers set their flags; the loop clears them.          *)
(***************************************************************************)
Timer0Overflow ==
    /\ ~TOV0
    /\ TOV0' = TRUE
    /\ UNCHANGED <<padVars, idleVars, loopVars, usbVars, bootVars, OCF2A>>

Timer2Compare ==
    /\ ~OCF2A
    /\ OCF2A' = TRUE
    /\ UNCHANGED <<padVars, idleVars, loopVars, usbVars, bootVars, TOV0>>

(***************************************************************************)
(* The main event loop, one action per stretch of code between two points  *)
(* where the Transport or a timer is observed.                             *)
(***************************************************************************)
\* IdleDue without the test of the idle rate
IdleDueAnyRate(rate, cnt) == ~(cnt > 4)

\* the idle countdown of one report id on an idle tick
IdleDue(rate, cnt) == rate # 0 /\ ~(cnt > 4)

\* IdleCount counting an idle tick as 4 units
IdleCountBy4(rate, cnt) ==
    IF rate = 0 THEN cnt
    ELSE IF cnt > 4 THEN cnt - 4 ELSE rate

\* IdleCount testing the countdown against 0: 1..4 wrap around
IdleCountWrap(rate, cnt) ==
    IF rate = 0 THEN cnt
    ELSE IF cnt > 0 THEN (cnt - 5) % 256 ELSE rate

\* idleCounters[i] is a uchar: the subtraction is stored modulo 256
IdleCount(rate, cnt) ==
    IF rate = 0 THEN cnt
    ELSE IF cnt > 4 THEN (cnt - 5) % 256 ELSE rate

RECURSIVE IdleDueMask(_)
IdleDueMask(n) ==
    IF n = 0 THEN 0
    ELSE BitOr(IdleDueMask(n - 1),
               IF IdleDue(idleRates[n], idleCounters[n]) THEN Shl(1, n - 1) ELSE 0)

RECURSIVE ChangedMask(_, _)
ChangedMask(s, n) ==
    IF n = 0 THEN 0
    ELSE BitOr(ChangedMask(s, n - 1),
               IF PadChanged(curGamepad, s, n) THEN Shl(1, n - 1) ELSE 0)

\* LoopTop without the test of jumptobootloader
LoopTopNoTest ==
    /\ pc = "top"
    /\ sinceWdt' = 0
    /\ pc' = "usbPoll"
    /\ UNCHANGED <<padVars, idleVars, usbVars, bootVars, timerVars,
                   must_report, first_run, i, sent, markChanged, markForced>>

\* LoopTop without the final for(;;): the loop goes on after the boot key
LoopTopNoSpin ==
    /\ pc = "top"
    /\ sinceWdt' = 0
    /\ IF jumptobootloader # 0
       THEN /\ BootKey' = BOOT_MAGIC
            /\ usbDisconnected' = TRUE
       ELSE UNCHANGED <<BootKey, usbDisconnected>>
    /\ pc' = "usbPoll"
    /\ UNCHANGED <<padVars, idleVars, usbVars, timerVars, jumptobootloader,
                   must_report, first_run, i, sent, markChanged, markForced>>

\* lines 272-283: watchdog refresh, then the bootloader-jump check
LoopTop ==
    /\ pc = "top"
    /\ sinceWdt' = 0
    /\ IF jumptobootloader # 0
       THEN /\ BootKey' = BOOT_MAGIC
            /\ usbDisconnected' = TRUE
            /\ pc' = "boot"
       ELSE /\ pc' = "usbPoll"
            /\ UNCHANGED <<BootKey, usbDisconnected>>
    /\ UNCHANGED <<padVars, idleVars, usbVars, timerVars, jumptobootloader,
                   must_report, first_run, i, sent, markChanged, markForced>>

\* line 286, and the test of line 288
UsbPollStep(reqs) ==
    /\ pc = "usbPoll"
    /\ \E req \in reqs : usbPoll(req)
    /\ pc' = IF first_run # 0 THEN "first" ELSE "idle"
    /\ sinceWdt' = sinceWdt + 1
    /\ UNCHANGED <<curGamepad, pins, idleCounters, must_report, first_run, i,
                   sent, markChanged, markForced, txBusy,
                   BootKey, usbDisconnected, timerVars>>

\* lines 289-290: the update() of the first iteration
FirstRun(samples) ==
    /\ pc = "first"
    /\ \E smp \in samples :
         /\ drv' = PadUpdate(curGamepad, drv, smp)
         /\ pins' = smp
    /\ lastOp' = lastOp
    /\ first_run' = 0
    /\ pc' = "idle"
    /\ sinceWdt' = sinceWdt + 1
    /\ UNCHANGED <<curGamepad, reportedPins, idleVars, usbVars, bootVars,
                   timerVars, must_report, i, sent, markChanged, markForced>>

\* lines 295-311
IdleTick ==
    /\ pc = "idle"
    /\ IF TOV0
       THEN LET n   == num_reports(curGamepad)
                due == IdleDueMask(n)
            IN  /\ TOV0' = FALSE
                /\ idleCounters' =
                     [k \in 1..MAX_REPORTS |->
                        IF k <= n THEN IdleCount(idleRates[k], idleCounters[k])
                        ELSE idleCounters[k]]
                /\ must_report' = BitOr(must_report, due)
                /\ markForced' = BitOr(markForced, due)
                /\ forcedAge' =
                     IF idleRates[1] = 0 THEN forcedAge
                     ELSE IF due % 2 = 1 THEN 0
                     ELSE IF forcedAge >= 0 THEN forcedAge + 1 ELSE forcedAge
       ELSE UNCHANGED <<TOV0, idleCounters, must_report, markForced, forcedAge>>
    /\ pc' = "pollctl"
    /\ sinceWdt' = sinceWdt + 1
    /\ UNCHANGED <<padVars, idleRates, usbVars, bootVars, OCF2A, first_run, i,
                   sent, markChanged>>

\* lines 314-339: the controller poll, then if(must_report) and the entry
\* of the send loop
PollTick(samples) ==
    /\ pc = "pollctl"
    /\ IF OCF2A
       THEN /\ OCF2A' = FALSE
            /\ \E smp \in samples :
                 LET d  == PadUpdate(curGamepad, drv, smp)
                     ch == ChangedMask(d, num_reports(curGamepad))
                 IN  /\ drv' = d
                     /\ pins' = smp
                     /\ must_report' = BitOr(must_report, ch)
                     /\ markChanged' = BitOr(markChanged, ch)
       ELSE UNCHANGED <<OCF2A, drv, pins, must_report, markChanged>>
    /\ IF must_report' # 0
       THEN i' = 0 /\ pc' = "send"
       ELSE i' = i /\ pc' = "top"
    /\ sinceWdt' = sinceWdt + 1
    /\ UNCHANGED <<curGamepad, reportedPins, lastOp, idleVars, usbVars,
                   bootVars, TOV0, first_run, sent, markForced>>

\* SendStep reloading the idle countdown of the report it sends
SendStepReload ==
    /\ pc = "send"
    /\ sinceWdt' = sinceWdt + 1
    /\ IF ~(i < num_reports(curGamepad))
       THEN /\ must_report' = 0
            /\ pc' = "top"
            /\ sent' = 0
            /\ markChanged' = 0
            /\ markForced' = 0
            /\ UNCHANGED <<padVars, usbVars, i, idleCounters>>
       ELSE IF BitAnd(must_report, Shl(1, i)) = 0
       THEN /\ i' = i + 1
            /\ UNCHANGED <<padVars, usbVars, must_report, pc, sent,
                           markChanged, markForced, idleCounters>>
       ELSE IF usbInterruptIsReady
       THEN LET r == PadBuildReport(curGamepad, drv, TRUE, i + 1) IN
            /\ drv' = r.st
            /\ reportBuffer' = WriteBuf(reportBuffer, r.buf)
            /\ reportedPins' = pins
            /\ usbSetInterrupt
            /\ sent' = BitOr(sent, Shl(1, i))
            /\ pc' = "wait"
            /\ idleCounters' = [idleCounters EXCEPT ![i + 1] = idleRates[i + 1]]
            /\ UNCHANGED <<curGamepad, pins, lastOp, setupBuffer, rwPending,
                           must_report, i, markChanged, markForced>>
       ELSE /\ i' = i + 1
            /\ UNCHANGED <<padVars, usbVars, must_report, pc, sent,
                           markChanged, markForced, idleCounters>>
    /\ UNCHANGED <<idleRates, forcedAge, bootVars, timerVars, first_run>>

\* lines 339-349 and 359: one pass of the send loop's head for index i
SendStep ==
    /\ pc = "send"
    /\ sinceWdt' = sinceWdt + 1
    /\ IF ~(i < num_reports(curGamepad))
       THEN /\ must_report' = 0
            /\ pc' = "top"
            /\ sent' = 0
            /\ markChanged' = 0
            /\ markForced' = 0
            /\ UNCHANGED <<padVars, usbVars, i>>
       ELSE IF BitAnd(must_report, Shl(1, i)) = 0
       THEN /\ i' = i + 1
            /\ UNCHANGED <<padVars, usbVars, must_report, pc, sent,
                           markChanged, markForced>>
       ELSE IF usbInterruptIsReady
       THEN LET r == PadBuildReport(curGamepad, drv, TRUE, i + 1) IN
            /\ drv' = r.st
            /\ reportBuffer' = WriteBuf(reportBuffer, r.buf)
            /\ reportedPins' = pins
            /\ usbSetInterrupt
            /\ sent' = BitOr(sent, Shl(1, i))
            /\ pc' = "wait"
            /\ UNCHANGED <<curGamepad, pins, lastOp, setupBuffer, rwPending,
                           must_report, i, markChanged, markForced>>
       ELSE /\ i' = i + 1
            /\ UNCHANGED <<padVars, usbVars, must_report, pc, sent,
                           markChanged, markForced>>
    /\ UNCHANGED <<idleVars, bootVars, timerVars, first_run>>

\* WaitStep without the wdt_reset() in the body of the wait
WaitStepNoWdt(reqs) ==
    /\ pc = "wait"
    /\ sinceWdt' = sinceWdt + 1
    /\ IF ~usbInterruptIsReady
       THEN /\ \E req \in reqs : usbPoll(req)
            /\ UNCHANGED <<pc, i>>
       ELSE /\ i' = i + 1
            /\ pc' = "send"
            /\ UNCHANGED <<drv, setupBuffer, reportBuffer, reportedPins,
                           lastOp, idleRates, forcedAge, rwPending,
                           jumptobootloader>>
    /\ UNCHANGED <<curGamepad, pins, idleCounters, must_report, first_run,
                   sent, markChanged, markForced, txBusy,
                   BootKey, usbDisconnected, timerVars>>

\* WaitStep leaving the wait whether or not the slot is free
WaitStepNoWait(reqs) ==
    /\ pc = "wait"
    /\ i' = i + 1
    /\ pc' = "send"
    /\ sinceWdt' = sinceWdt + 1
    /\ UNCHANGED <<padVars, idleVars, usbVars, bootVars, timerVars,
                   must_report, first_run, sent, markChanged, markForced>>

\* lines 351-356: the wait for the send slot, then the loop's i++
WaitStep(reqs) ==
    /\ pc = "wait"
    /\ IF ~usbInterruptIsReady
       THEN /\ \E req \in reqs : usbPoll(req)
            /\ sinceWdt' = 0
            /\ UNCHANGED <<pc, i>>
       ELSE /\ i' = i + 1
            /\ pc' = "send"
            /\ sinceWdt' = sinceWdt + 1
            /\ UNCHANGED <<drv, setupBuffer, reportBuffer, reportedPins,
                           lastOp, idleRates, forcedAge, rwPending,
                           jumptobootloader>>
    /\ UNCHANGED <<curGamepad, pins, idleCounters, must_report, first_run,
                   sent, markChanged, markForced, txBusy,
                   BootKey, usbDisconnected, timerVars>>

(***************************************************************************)
(* The firmware with its environment.                                      *)
(***************************************************************************)
\* lines the environment drives under the main loop
LoopLines == 1

\* largest idle rate the host asks for under the main loop; 4 is the
\* largest rate that expires on every idle tick
MaxRate == 5

Rates == {0} \cup (4..MaxRate)

\* report ids the host addresses under the main loop: those of the gamepad
ReqIds == {1}

LoopSamples == PadSamples(curGamepad, LoopLines)

Init == MainInit(LoopLines)

Next ==
    \/ LoopTop
    \/ UsbPollStep(HostRequests(ReqIds, Rates))
    \/ FirstRun(LoopSamples)
    \/ IdleTick
    \/ PollTick(LoopSamples)
    \/ SendStep
    \/ WaitStep(HostRequests(ReqIds, Rates))
    \/ Timer0Overflow
    \/ Timer2Compare
    \/ UsbIntrIn

Spec == Init /\ [][Next]_vars

(***************************************************************************)
(* The drivers alone, under any caller of the Gamepad interface: init()    *)
(* once, then update() and buildReport() in any order, with any sample of  *)
(* the first MaxLines lines, a null or a non-null buffer and any id.  The  *)
(* caller's buffer is not kept: the bytes a call writes are the buf field  *)
(* of PadBuildReport.                                                      *)
(***************************************************************************)
\* largest report id a caller passes
MaxId == 2

DrvIds == 0..MaxId

notDrvVars == <<curGamepad, idleVars, loopVars, usbVars, bootVars, timerVars>>

DrvUpdate ==
    /\ \E smp \in PadSamples(curGamepad, MaxLines) :
         /\ drv' = PadUpdate(curGamepad, drv, smp)
         /\ pins' = smp
    /\ lastOp' = "update"
    /\ UNCHANGED <<reportedPins, notDrvVars>>

DrvBuildReport ==
    /\ \E hasBuf \in BOOLEAN, id \in DrvIds :
         drv' = PadBuildReport(curGamepad, drv, hasBuf, id).st
    /\ reportedPins' = pins
    /\ lastOp' = "buildReport"
    /\ UNCHANGED <<pins, notDrvVars>>

InitDrv == MainInit(MaxLines)

NextDrv == DrvUpdate \/ DrvBuildReport

SpecDrv == InitDrv /\ [][NextDrv]_vars

(***************************************************************************)
(* The main loop under one idle rate: the host sets the idle rate of       *)
(* report id 1 once, to a non-zero value, and the lines keep the levels of *)
(* their first sample.                                                     *)
(***************************************************************************)
\* largest idle rate tried besides 255, the largest a uchar holds
IdleMaxRate == 11

IdleRateSet == (1..IdleMaxRate) \cup {255}

IdleRequests ==
    {[kind |-> "none"]}
    \cup (IF idleRates[1] = 0
          THEN {[kind |-> "setup", rq |-> SetupRq(33, USBRQ_HID_SET_IDLE, 1, r)] :
                  r \in IdleRateSet}
          ELSE {})

IdleSamples == IF pins = NoSample THEN LoopSamples ELSE {pins}

NextIdle ==
    \/ LoopTop
    \/ UsbPollStep(IdleRequests)
    \/ FirstRun(IdleSamples)
    \/ IdleTick
    \/ PollTick(IdleSamples)
    \/ SendStep
    \/ WaitStep(IdleRequests)
    \/ Timer0Overflow
    \/ Timer2Compare
    \/ UsbIntrIn

SpecIdle == Init /\ [][NextIdle]_vars

(***************************************************************************)
(* The ColecoVision spinner (SpecDrv).                                     *)
(***************************************************************************)
IsColeco == curGamepad = "ColecoVision"

\* previous/actual pairs of the 2-bit spinner sample whose bits both differ
InvalidPairs == {<<0, 3>>, <<1, 2>>, <<2, 1>>, <<3, 0>>}

ValidPairs == ((0..3) \X (0..3)) \ InvalidPairs

\* a colecovisionUpdate step that takes the spinner sample from p[1] to p[2]
SpinnerStep(p) ==
    /\ IsColeco
    /\ lastOp' = "update"
    /\ drv.old_spinner = p[1]
    /\ drv'.spinner = p[2]

Clip(w) == IF w > 255 THEN 255 ELSE IF w < 0 THEN 0 ELSE w

\* C4: a colecovisionUpdate whose spinner sample differs from the previous
\* one in both bits (0<->3, 1<->2) is an invalid transition: its delta is 0
\* and it leaves wheel_pos unchanged.
C4_InvalidCodesIgnored ==
    [][\A p \in InvalidPairs :
          SpinnerStep(p) => drv'.delta = 0 /\ drv'.wheel_pos = drv.wheel_pos]_vars

\* C5: for each of the twelve valid previous/actual pairs the delta of
\* colecovisionUpdate is the entry of the documented table, indexed by
\* actual | previous << 2, times MULT: 0 when the sample is unchanged, +32 or
\* -32 for a single-bit transition, and the reverse of a single-bit
\* transition has the opposite sign.
C5_ValidCodes ==
    [][\A p \in ValidPairs :
          SpinnerStep(p) =>
            /\ drv'.delta = QEMDoc[p[1] + 1][p[2] + 1] * MULT
            /\ drv'.delta = QEM[BitOr(p[2], Shl(p[1], 2)) + 1] * MULT
            /\ (p[1] = p[2]) <=> (drv'.delta = 0)
            /\ p[1] # p[2] =>
                 /\ drv'.delta \in {MULT, -MULT}
                 /\ ColecoDelta(p[1], p[2]) = -drv'.delta
            /\ drv'.wheel_pos = Clip(drv.wheel_pos + drv'.delta)]_vars

\* an update took the spinner from 0 to 2: one step counter-clockwise
C5_Witness ==
    /\ IsColeco
    /\ lastOp = "update"
    /\ drv.spinner = 2
    /\ drv.delta = -MULT
    /\ drv.wheel_pos = 128 - MULT

\* C6: wheel_pos is a saturating accumulator: it stays within 0..255 after
\* colecovisionInit and after every colecovisionUpdate, an update moves it
\* by delta and stops it at 0 and at 255 (three steps of +1 from 250, the
\* spinner going 0, 1, 3, 2, each leave it at 255), and the wheel byte of
\* the report is wheel_pos.
C6_WheelClamped ==
    /\ LET at250 == [ColecoPowerOn EXCEPT !.wheel_pos = 250]
           s1 == colecovisionUpdate(at250, ColecoSample({3}))
           s2 == colecovisionUpdate(s1, ColecoSample({3, 4}))
           s3 == colecovisionUpdate(s2, ColecoSample({4}))
       IN  /\ <<s1.delta, s2.delta, s3.delta>> = <<MULT, MULT, MULT>>
           /\ <<s1.wheel_pos, s2.wheel_pos, s3.wheel_pos>> = <<255, 255, 255>>
    /\ [](IsColeco =>
            /\ drv.wheel_pos \in 0..255
            /\ ColecoReportBytes(drv)[3] = drv.wheel_pos
            /\ colecovisionBuildReport(drv, TRUE, 1).buf[3] = drv.wheel_pos)
    /\ [][IsColeco /\ lastOp' = "update" =>
            /\ drv.wheel_pos + drv'.delta > 255 => drv'.wheel_pos = 255
            /\ drv.wheel_pos + drv'.delta < 0 => drv'.wheel_pos = 0
            /\ drv.wheel_pos + drv'.delta \in 0..255 =>
                 drv'.wheel_pos = drv.wheel_pos + drv'.delta]_vars

\* a clockwise step arrived with the wheel at its maximum
C6_Witness ==
    /\ IsColeco
    /\ lastOp = "update"
    /\ drv.delta = MULT
    /\ drv.wheel_pos = 255

(***************************************************************************)
(* changed() and buildReport() of both drivers (SpecDrv).                  *)
(***************************************************************************)
ReportSize(g) == IF g = "Sega" THEN SEGA_REPORT_SIZE ELSE COLECO_REPORT_SIZE

\* C7: buildReport, whatever the id and whether or not the buffer is null,
\* copies last_update_state to last_reported_state, so that changed() is
\* false for every id right after it, and returns the report size of the
\* driver: 4 for Sega, 5 for ColecoVision.
C7_BuildReportAcknowledges ==
    /\ \A hasBuf \in BOOLEAN, id \in DrvIds :
         LET r == PadBuildReport(curGamepad, drv, hasBuf, id) IN
         /\ r.len = ReportSize(curGamepad)
         /\ r.st.last_reported_state = drv.last_update_state
         /\ \A id2 \in DrvIds : ~PadChanged(curGamepad, r.st, id2)
         /\ hasBuf => Len(r.buf) = r.len
         /\ ~hasBuf => r.buf = << >>
    /\ lastOp = "buildReport" =>
         /\ drv.last_reported_state = drv.last_update_state
         /\ \A id \in DrvIds : ~PadChanged(curGamepad, drv, id)

\* a report was built of a sample in which some line is low
C7_Witness ==
    /\ lastOp = "buildReport"
    /\ pins # NoSample
    /\ reportedPins = pins
    /\ pins \notin {SegaSample({}), ColecoSample({})}
    /\ drv.last_reported_state = drv.last_update_state

\* C8: after an update that read a line at a level other than the one it
\* had in the sample of the last report, changed() is true for the ids of
\* the gamepad.
C8_ChangedAfterDifferingUpdate ==
    (lastOp = "update" /\ reportedPins # NoSample /\ pins # reportedPins)
        => \A id \in 1..num_reports(curGamepad) :
              PadChanged(curGamepad, drv, id)

(***************************************************************************)
(* The send step of the main loop (Spec).                                  *)
(***************************************************************************)
Bit(m, k) == BitAnd(m, Shl(1, k)) # 0

ChangeReportSent ==
    /\ pc = "wait"
    /\ Bit(markChanged, i)
    /\ ~Bit(markForced, i)
    /\ idleRates[i + 1] # 0
    /\ forcedAge >= 0

\* C2 as the specification words it: a report sent because changed() was
\* true reloads the idle countdown of its id from the idle rate.
C2_ChangeReloadsCountdown ==
    ChangeReportSent => idleCounters[i + 1] = idleRates[i + 1]

\* C2: a report sent because changed() was true leaves the idle countdown
\* as it is: idleCounters is written only by the idle tick, which takes 5
\* off a countdown above 4 and reloads one of 4 or less from the idle rate,
\* so the next forced report comes when the countdown was already due.
C2_ChangeKeepsCountdown ==
    /\ [][(pc \in {"pollctl", "send", "wait"}) => idleCounters' = idleCounters]_vars
    /\ [][idleCounters' # idleCounters =>
            /\ pc = "idle" /\ TOV0
            /\ \A k \in 1..MAX_REPORTS :
                 idleCounters'[k] =
                   IF k > num_reports(curGamepad) \/ idleRates[k] = 0
                   THEN idleCounters[k]
                   ELSE IF idleCounters[k] > 4 THEN idleCounters[k] - 5
                   ELSE idleRates[k]]_vars

\* a change report has gone out in the middle of an idle period
C2_Witness == ChangeReportSent /\ idleCounters[i + 1] # idleRates[i + 1]

(***************************************************************************)
(* The bootloader jump (Spec).                                             *)
(***************************************************************************)
\* the step in which usbPoll hands usbFunctionWrite a chunk starting with b
WriteHandled(b) ==
    LET w == {[kind |-> "write", data0 |-> b, len |-> 1]} IN
    UsbPollStep(w) \/ (WaitStep(w) /\ txBusy)

\* C9: usbFunctionWrite sets jumptobootloader exactly when the first byte
\* of the chunk is 0x5A; a write with another first byte leaves the flag,
\* the idle tables and the driver state as they are; nothing else sets the
\* flag, and nothing clears it.
C9_BootTrigger ==
    /\ [][\A b \in WriteBytes :
            WriteHandled(b) =>
              /\ b = BOOT_SENTINEL => jumptobootloader' = 1
              /\ b # BOOT_SENTINEL =>
                   UNCHANGED <<jumptobootloader, idleRates, idleCounters,
                               drv, pins, reportedPins>>]_vars
    /\ [][jumptobootloader' # jumptobootloader =>
            /\ jumptobootloader = 0
            /\ jumptobootloader' = 1
            /\ WriteHandled(BOOT_SENTINEL)]_vars

\* a write of the sentinel has set the flag and the loop has yet to see it
C9_Witness ==
    /\ jumptobootloader = 1
    /\ pc \in {"wait", "send", "idle", "pollctl", "first"}
    /\ BootKey = 0

\* C10: the boot key 0xBEEF is written and the USB disconnect forced when,
\* and only when, the top of the loop finds jumptobootloader set; from then
\* on the loop is never left: no watchdog refresh, no usbPoll, no update
\* and no report; only the hardware timers still set their flags.
C10_BootTerminal ==
    /\ []((pc = "boot") <=> (BootKey = BOOT_MAGIC))
    /\ [](BootKey \in {0, BOOT_MAGIC})
    /\ [](pc = "boot" => usbDisconnected /\ jumptobootloader # 0)
    /\ [](usbDisconnected => pc = "boot")
    /\ [][pc = "top" /\ jumptobootloader # 0 /\ pc' # pc =>
            pc' = "boot" /\ BootKey' = BOOT_MAGIC /\ usbDisconnected']_vars
    /\ [][BootKey' # BootKey => pc = "top" /\ jumptobootloader # 0]_vars
    /\ [][pc = "boot" =>
            /\ pc' = "boot"
            /\ UNCHANGED <<padVars, idleVars, loopVars, usbVars, bootVars>>]_vars

\* the loop spins with the boot key written and both timer flags set and
\* left unserved
C10_Witness ==
    /\ pc = "boot"
    /\ BootKey = BOOT_MAGIC
    /\ usbDisconnected
    /\ TOV0
    /\ OCF2A

(***************************************************************************)
(* The idle period (SpecIdle).  forcedAge is the number of idle ticks      *)
(* since the last one that marked report id 1 as forced, -1 before the     *)
(* first.                                                                  *)
(***************************************************************************)
\* an idle tick served by the loop, with report id 1 marked before
ServedIdleTick ==
    /\ pc = "idle" /\ TOV0 /\ pc' = "pollctl"
    /\ idleRates[1] # 0
    /\ forcedAge >= 0

\* C3: with the idle rate of report id 1 at N, set once, and the lines
\* still, the idle tick marks id 1 as forced exactly once per period of
\* N \div 5 + 1 idle ticks; counting an idle tick as 5 units of 4 ms, two
\* consecutive forced reports are more than N and at most N + 5 units
\* apart: N x 4 ms to within one idle tick.
C3_IdlePeriod ==
    [][ServedIdleTick =>
         LET N      == idleRates[1]
             ticks  == forcedAge + 1
             marked == forcedAge' = 0
         IN  /\ marked <=> (ticks = (N \div 5) + 1)
             /\ marked => /\ Bit(must_report', 0) /\ Bit(markForced', 0)
                          /\ 5 * ticks - N \in 1..5
                          /\ idleCounters'[1] = N
             /\ ~marked => /\ forcedAge' = ticks
                           /\ ~Bit(markForced', 0)
                           /\ must_report' = must_report
                           /\ idleCounters'[1] = N - 5 * ticks]_vars

\* the tick that ends a full period of rate 255 is about to be served: the
\* 52nd after the one that marked the last forced report
C3_Witness ==
    /\ pc = "idle"
    /\ TOV0
    /\ idleRates[1] = 255
    /\ forcedAge = 51
    /\ idleCounters[1] = 0

(***************************************************************************)
(* The main loop as a running program under a host that asks for the       *)
(* bootloader: the host sends SET_REPORT and writes chunks, the processor  *)
(* keeps executing the loop, and the host keeps polling the interrupt      *)
(* endpoint, so a report in the send slot is eventually taken.             *)
(***************************************************************************)
BootRequests ==
    {[kind |-> "none"],
     [kind |-> "setup", rq |-> SetupRq(33, USBRQ_HID_SET_REPORT, 0, 3)],
     [kind |-> "write", data0 |-> 0, len |-> 1],
     [kind |-> "write", data0 |-> BOOT_SENTINEL, len |-> 1]}

MainStep ==
    \/ LoopTop
    \/ UsbPollStep(BootRequests)
    \/ FirstRun(LoopSamples)
    \/ IdleTick
    \/ PollTick(LoopSamples)
    \/ SendStep
    \/ WaitStep(BootRequests)

NextLive == MainStep \/ Timer0Overflow \/ Timer2Compare \/ UsbIntrIn

SpecLive ==
    Init /\ [][NextLive]_vars /\ WF_vars(MainStep) /\ WF_vars(UsbIntrIn)

\* C11: once a write of 0x5A has set jumptobootloader, the flag stays set,
\* the loop reads it only at the top of an iteration (never inside the wait
\* for the send slot), and, the host freeing the send slot whenever a
\* report is outstanding, the loop eventually enters the terminal state.
C11_BootEventually ==
    /\ (jumptobootloader # 0) ~> (pc = "boot")
    /\ [][jumptobootloader # 0 => jumptobootloader' # 0]_vars
    /\ [][pc' = "boot" /\ pc # "boot" => pc = "top" /\ jumptobootloader # 0]_vars
    /\ [][pc = "wait" /\ txBusy => pc' = "wait"]_vars

\* the sentinel arrived inside the wait for the send slot, with the report
\* still outstanding
C11_Witness ==
    /\ jumptobootloader = 1
    /\ pc = "wait"
    /\ txBusy
    /\ BootKey = 0

(***************************************************************************)
(* The watchdog (Spec).  sinceWdt counts the steps of the loop since the   *)
(* last wdt_reset().                                                       *)
(***************************************************************************)
\* a step of the loop inside the wait for the send slot, the slot busy
WaitIteration ==
    /\ pc = "wait"
    /\ txBusy
    /\ UNCHANGED <<txBusy, timerVars>>

\* steps of one pass through the loop: usbPoll, the first update, the idle
\* tick, the poll tick, a send and the end of its wait per report id, and
\* the end of the send loop
LoopSteps == 5 + 2 * num_reports(curGamepad)

\* C12: outside the terminal state the watchdog is refreshed at the top of
\* every iteration of the main loop, every iteration of the wait for the
\* send slot calls usbPoll and refreshes the watchdog, and no more than
\* the steps of one pass through the loop separate two refreshes.
C12_WatchdogProgress ==
    /\ [](pc # "boot" => sinceWdt <= LoopSteps)
    /\ [](pc = "usbPoll" => sinceWdt = 0)
    /\ [][pc = "top" /\ pc' # "top" => sinceWdt' = 0]_vars
    /\ [][WaitIteration =>
            /\ sinceWdt' = 0
            /\ pc' = "wait"
            /\ \E req \in HostRequests(ReqIds, Rates) : usbPoll(req)]_vars

\* the wait for the send slot has refreshed the watchdog and serviced a
\* SET_IDLE meanwhile
C12_Witness ==
    /\ pc = "wait"
    /\ txBusy
    /\ sinceWdt = 0
    /\ idleRates[1] # 0
    /\ idleCounters[1] = 0

(***************************************************************************)
(* The two report buffers (Spec).                                          *)
(***************************************************************************)
\* the step in which usbPoll hands usbFunctionSetup a GET_REPORT for id
GetReportHandled(id) ==
    LET g == {[kind |-> "setup",
               rq |-> SetupRq(161, USBRQ_HID_GET_REPORT, id, 1)]} IN
    UsbPollStep(g) \/ (WaitStep(g) /\ txBusy)

\* C13: reportBuffer is written only by the send step, with the send slot
\* free, and never while a report is outstanding; a GET_REPORT, also one
\* serviced inside the wait for the slot, builds its reply in setupBuffer
\* and leaves reportBuffer alone.
C13_ReportBufferStable ==
    /\ [][txBusy => reportBuffer' = reportBuffer]_vars
    /\ [][reportBuffer' # reportBuffer => pc = "send" /\ pc' = "wait"]_vars
    /\ [][pc = "send" /\ pc' = "wait" =>
            /\ ~txBusy /\ txBusy'
            /\ reportBuffer' =
                 WriteBuf(reportBuffer,
                          PadBuildReport(curGamepad, drv, TRUE, i + 1).buf)
            /\ setupBuffer' = setupBuffer]_vars
    /\ [][\A id \in ReqIds :
            GetReportHandled(id) =>
              /\ reportBuffer' = reportBuffer
              /\ setupBuffer' =
                   WriteBuf(setupBuffer,
                            PadBuildReport(curGamepad, drv, TRUE, id).buf)]_vars

\* a report is outstanding and setupBuffer holds a GET_REPORT reply with
\* the same bytes
C13_Witness ==
    /\ pc = "wait"
    /\ txBusy
    /\ Bit(sent, i)
    /\ setupBuffer # Zeros(6)
    /\ setupBuffer = reportBuffer


(***************************************************************************)
(* C14: update() has run at least once before any buildReport call, from   *)
(* the send step or from a GET_REPORT handled by usbPoll, so that no       *)
(* report is built from the driver's power-on state.  A buffer holds       *)
(* report bytes only after a buildReport call, and pins holds a sample     *)
(* only after an update().  The Sega driver's init does not call update()  *)
(* and usbPoll() precedes the forced update of the first iteration.        *)
(***************************************************************************)
C14_UpdateBeforeBuild ==
    (setupBuffer # Zeros(6) \/ reportBuffer # Zeros(6)) => pins # NoSample


(***************************************************************************)
(* The setup callback alone: usbPoll() handing the firmware any sequence   *)
(* of setup packets, with every report id from 0 to beyond the idle-rate   *)
(* table, while the main loop stands still and the lines are idle.         *)
(***************************************************************************)
\* largest report id the host names in a setup packet, besides 255
MaxSetupId == 9

\* 255 is the largest id a byte of wValue holds
SetupIds == (0..MaxSetupId) \cup {255}

\* idle rates the host asks for: "only on change" and the slowest
SetupRates == {0, 255}

notUsbVars == <<curGamepad, pins, idleCounters, loopVars, txBusy, BootKey,
                usbDisconnected, timerVars>>

UsbSetup(rqs) ==
    /\ \E rq \in rqs : usbPoll([kind |-> "setup", rq |-> rq])
    /\ UNCHANGED notUsbVars

InitUsb == MainInit(0)

NextUsb == UsbSetup(SetupRequests(SetupIds, SetupRates))

SpecUsb == InitUsb /\ [][NextUsb]_vars

\* the bytes V-USB sends for a reply of usbFunctionSetup: len bytes from
\* usbMsgPtr on, read after the callback has returned
UsbReply(ret, rates, buf) ==
    LET mem == IF ret.usbMsgPtr[1] = "idleRates" THEN rates ELSE buf
        off == ret.usbMsgPtr[2] IN
    [k \in 1..ret.len |-> IF off + k \in DOMAIN mem THEN mem[off + k] ELSE -1]

SetIdle(id, rate) == SetupRq(33, USBRQ_HID_SET_IDLE, id, rate)

GetIdle(id) == SetupRq(161, USBRQ_HID_GET_IDLE, id, 0)

(***************************************************************************)
(* C15: SET_IDLE with report id 0 sets all MAX_REPORTS entries of the      *)
(* idle-rate table to the requested rate; SET_IDLE with id k in 1..8 sets  *)
(* entry k and leaves every other entry unchanged; a GET_IDLE for id k in  *)
(* 1..8 returns one byte, the current entry k.                             *)
(***************************************************************************)
C15_SetGetIdle ==
    /\ [][\A r \in SetupRates :
            UsbSetup({SetIdle(0, r)}) =>
                \A k \in 1..MAX_REPORTS : idleRates'[k] = r]_vars
    /\ [][\A id \in 1..MAX_REPORTS, r \in SetupRates :
            UsbSetup({SetIdle(id, r)}) =>
                /\ idleRates'[id] = r
                /\ \A k \in 1..MAX_REPORTS : k # id => idleRates'[k] = idleRates[k]]_vars
    /\ [][\A id \in 1..MAX_REPORTS :
            UsbSetup({GetIdle(id)}) =>
                /\ usbFunctionSetupRet(GetIdle(id)).len = 1
                /\ UsbReply(usbFunctionSetupRet(GetIdle(id)), idleRates', setupBuffer')
                       = <<idleRates[id]>>
                /\ idleRates' = idleRates]_vars

\* the entries hold different rates, set one by one
C15_Witness ==
    /\ idleRates[1] = 255 /\ idleRates[3] = 0 /\ idleRates[8] = 255
    /\ idleRates[2] = 0 /\ idleRates[7] = 255


\* the firmware's own state: everything but the Transport's note of an
\* outstanding data stage
firmwareVars == <<padVars, idleVars, loopVars, bootVars, timerVars,
                  reportBuffer, setupBuffer, txBusy>>

(***************************************************************************)
(* C16: a SET_IDLE with a report id greater than MAX_REPORTS changes no    *)
(* idle-rate entry and no other state; a GET_IDLE with report id 0 or      *)
(* greater than MAX_REPORTS returns a zero-length result; no request reads *)
(* or writes outside the 8 entries of the table.                           *)
(***************************************************************************)
C16_OutOfRangeIgnored ==
    /\ [][\A id \in SetupIds, r \in SetupRates :
            id > MAX_REPORTS /\ UsbSetup({SetIdle(id, r)}) =>
                UNCHANGED firmwareVars]_vars
    /\ [][\A id \in SetupIds :
            (id = 0 \/ id > MAX_REPORTS) /\ UsbSetup({GetIdle(id)}) =>
                /\ usbFunctionSetupRet(GetIdle(id)).len = 0
                /\ UNCHANGED firmwareVars]_vars
    /\ [](DOMAIN idleRates = 1..MAX_REPORTS)
    /\ [](\A rq \in SetupRequests(SetupIds, SetupRates) :
            LET ret == usbFunctionSetupRet(rq) IN
            ret.usbMsgPtr[1] = "idleRates" =>
                /\ ret.usbMsgPtr[2] >= 0
                /\ ret.usbMsgPtr[2] + ret.len <= MAX_REPORTS)

\* a table with entries set, which an out-of-range request has to leave alone
C16_Witness ==
    /\ idleRates[MAX_REPORTS] = 255 /\ idleRates[1] = 0 /\ idleRates[2] = 255
    /\ ~rwPending /\ setupBuffer # Zeros(6)


(***************************************************************************)
(* The setup callback under setup packets of every request type and every  *)
(* request code up to MaxCode, for the report ids at the two ends of the   *)
(* idle-rate table and next to them.                                       *)
(***************************************************************************)
\* largest bRequest the host sends; 11 is SET_PROTOCOL, the last HID request
MaxCode == 11

\* bmRequestType: standard to the device (out and in) and to the interface,
\* class to the interface (out and in), vendor, and the reserved type
AnyTypes == {0, 128, 129, 33, 161, 64, 96}

AnyCodes == 0..MaxCode

AnyIds == {0, 1, 2, MAX_REPORTS, MAX_REPORTS + 1}

AnyRequests ==
    {SetupRq(t, b, id, r) : t \in AnyTypes, b \in AnyCodes, id \in AnyIds,
                            r \in SetupRates}

\* descriptor types in the high byte of wValue: none, device, configuration,
\* string, HID, HID report, HID physical, and the largest byte
DescrTypes == {0, USBDESCR_DEVICE, USBDESCR_CONFIG, 3, 33, USBDESCR_HID_REPORT, 35, 255}

DescrRequests ==
    {SetupRq(t, b, 0, d) : t \in AnyTypes, b \in AnyCodes, d \in DescrTypes}

NextReq == UsbSetup(AnyRequests)

SpecReq == InitUsb /\ [][NextReq]_vars

\* the requests usbFunctionSetup has a case for
SetupKnown(rq) ==
    /\ BitAnd(rq.bmRequestType, USBRQ_TYPE_MASK) = USBRQ_TYPE_CLASS
    /\ rq.bRequest \in {USBRQ_HID_GET_REPORT, USBRQ_HID_SET_REPORT,
                        USBRQ_HID_GET_IDLE, USBRQ_HID_SET_IDLE}

\* the requests usbFunctionDescriptor has a case for
DescrKnown(rq) ==
    /\ BitAnd(rq.bmRequestType, USBRQ_TYPE_MASK) = USBRQ_TYPE_STANDARD
    /\ rq.bRequest = USBRQ_GET_DESCRIPTOR
    /\ rq.wValue1 \in {USBDESCR_DEVICE, USBDESCR_HID_REPORT, USBDESCR_CONFIG}

(***************************************************************************)
(* C17: usbFunctionSetup returns length 0 and changes no idle-rate entry,  *)
(* flag or controller state for every request that is not of class type or *)
(* whose request code is none of GET_REPORT, SET_REPORT, GET_IDLE and      *)
(* SET_IDLE; usbFunctionDescriptor returns length 0 for every request that *)
(* is not standard, is not GET_DESCRIPTOR, or names a descriptor type      *)
(* other than device, HID report and configuration.                        *)
(***************************************************************************)
C17_UnknownRequests ==
    /\ [][firmwareVars' # firmwareVars =>
            ~UsbSetup({rq \in AnyRequests : ~SetupKnown(rq)})]_vars
    /\ [](\A rq \in AnyRequests :
            ~SetupKnown(rq) => usbFunctionSetupRet(rq).len = 0)
    /\ [](\A rq \in DescrRequests :
            /\ ~DescrKnown(rq) => usbFunctionDescriptor(rq).len = 0
            /\ DescrKnown(rq) => usbFunctionDescriptor(rq).len > 0)

\* a table with entries set, a report built and a data stage outstanding:
\* state an unknown request has to leave alone
C17_Witness ==
    /\ idleRates[1] = 255 /\ idleRates[2] = 0 /\ idleRates[MAX_REPORTS] = 255
    /\ setupBuffer # Zeros(6) /\ rwPending


(***************************************************************************)
(* C18: idle rate 0 means report only on change.  While the idle rate of a *)
(* report id is 0, an idle tick neither marks the id for transmission nor  *)
(* alters its countdown, and every interrupt report sent for it was marked *)
(* by a poll tick on which changed(id) was true.                           *)
(***************************************************************************)
C18_RateZeroOnlyOnChange ==
    /\ [][\A k \in 1..MAX_REPORTS :
            pc = "idle" /\ idleRates[k] = 0 =>
                /\ idleCounters'[k] = idleCounters[k]
                /\ Bit(must_report', k - 1) = Bit(must_report, k - 1)
                /\ Bit(markForced', k - 1) = Bit(markForced, k - 1)]_vars
    /\ [][pc = "send" /\ pc' = "wait" /\ idleRates[i + 1] = 0 =>
            /\ Bit(must_report, i)
            /\ Bit(markChanged, i)
            /\ ~Bit(markForced, i)]_vars

\* a report sent under idle rate 0, with a countdown left over from an
\* earlier non-zero rate and the idle timer expired again
C18_Witness ==
    /\ pc = "wait" /\ Bit(sent, 0) /\ Bit(markChanged, 0)
    /\ idleRates[1] = 0 /\ idleCounters[1] # 0 /\ TOV0


(***************************************************************************)
(* The Sega driver alone under a pad's extra buttons: update() with any    *)
(* levels of X, MODE, Z, Y and of the discriminator's lines, and           *)
(* buildReport(), in any order.                                            *)
(***************************************************************************)
\* X, MODE, Z, Y and the two parts of the discriminator in SegaLines
SegaExtraLines == {3, 8, 12, 13, 14, 15}

SegaExtraSamples == {SegaSample(low) : low \in SUBSET SegaExtraLines}

SegaExtraUpdate ==
    /\ \E smp \in SegaExtraSamples :
         /\ drv' = SegaUpdate(drv, smp)
         /\ pins' = smp
    /\ lastOp' = "update"
    /\ UNCHANGED <<reportedPins, notDrvVars>>

InitSega == InitDrv /\ curGamepad = "Sega"

NextSega == SegaExtraUpdate \/ DrvBuildReport

SpecSega == InitSega /\ [][NextSega]_vars

\* the discriminator the last SegaUpdate sampled says "3-button pad"
ThreeButton == BitAnd(pins.l1B, 15) # 0

\* raw bit k of last_update_state is active (low)
RawActive(k) == ~Bit(drv.last_update_state, k)

(***************************************************************************)
(* C19: when the discriminator sampled by the most recent SegaUpdate is    *)
(* non-zero (3-button pad), SegaBuildReport leaves byte 2 bits 0, 6, 1 and *)
(* byte 3 bit 0 clear for every value of the raw bits 8..11; when it is    *)
(* zero (6-button pad) each of these report bits is set exactly when its   *)
(* raw bit is active (low): X is raw bit 10, Y raw bit 9, Z raw bit 8,     *)
(* MODE raw bit 11.  Every SegaUpdate samples the discriminator again.     *)
(***************************************************************************)
C19_ThreeOrSixButtons ==
    /\ [](pins # NoSample =>
            LET b == SegaBuildReport(drv, TRUE, 1).buf IN
            /\ drv.but3_6 = BitAnd(pins.l1B, 15)
            /\ BitAnd(Shr(drv.last_update_state, 8), 15) = BitAnd(pins.h2B, 15)
            /\ ThreeButton =>
                  ~Bit(b[3], 0) /\ ~Bit(b[3], 6) /\ ~Bit(b[3], 1) /\ ~Bit(b[4], 0)
            /\ ~ThreeButton =>
                  /\ Bit(b[3], 0) <=> RawActive(10)
                  /\ Bit(b[3], 6) <=> RawActive(9)
                  /\ Bit(b[4], 0) <=> RawActive(8)
                  /\ Bit(b[3], 1) <=> RawActive(11))
    /\ [][lastOp' = "update" => drv'.but3_6 = BitAnd(pins'.l1B, 15)]_vars

\* a 3-button profile with all four raw bits active, sampled after a
\* 6-button profile had been reported with X and Z held
C19_Witness ==
    /\ pins # NoSample /\ reportedPins # NoSample
    /\ ThreeButton /\ \A k \in 8..11 : RawActive(k)
    /\ BitAnd(reportedPins.l1B, 15) = 0 /\ BitAnd(reportedPins.h2B, 15) = 10
    /\ lastOp = "update"


(***************************************************************************)
(* The ColecoVision driver alone under the key-pad: update() with any      *)
(* levels of the four key-pad lines and of the two fire lines, and         *)
(* buildReport(), in any order.                                            *)
(***************************************************************************)
\* left fire, key-pad bit 3, right fire, key-pad bits 2, 1, 0 in ColecoLines
ColecoKeyLines == {2, 5, 6, 8, 9, 10}

ColecoKeySamples == {ColecoSample(low) : low \in SUBSET ColecoKeyLines}

ColecoKeyUpdate ==
    /\ \E smp \in ColecoKeySamples :
         /\ drv' = colecovisionUpdate(drv, smp)
         /\ pins' = smp
    /\ lastOp' = "update"
    /\ UNCHANGED <<reportedPins, notDrvVars>>

InitKeys == InitDrv /\ curGamepad = "ColecoVision"

NextKeys == ColecoKeyUpdate \/ DrvBuildReport

SpecKeys == InitKeys /\ [][NextKeys]_vars

\* codes of the comments "Button 1" .. "Button 9", "*", "0", "#" and of
\* "Purple fire", "Blue fire"
KeyCodes == {8, 4, 9, 7, 6, 1, 12, 14, 2, 10, 3, 5}

ColorCodes == {13, 11}

\* the 14 key bits of a report: byte [3] bits 2..7, then byte [4]
KeyWord(b) == (b[4] \div 4) + 64 * b[5]

\* the key bits colecovisionBuildReport sets when the key-pad lines read
\* code (active low), the fire lines idle
KeyWordOf ==
    [code \in 0..15 |->
        KeyWord(colecovisionBuildReport(
                    [ColecoPowerOn EXCEPT !.last_update_state = <<63, 63 - code>>],
                    TRUE, 1).buf)]

OneBit == {2 ^ k : k \in 0..13}

(***************************************************************************)
(* C20: each of the 12 key codes sets exactly one key bit of report bytes  *)
(* [3] and [4], the 12 bits pairwise distinct; each of the two colored-    *)
(* fire codes sets one further distinct bit; every other 4-bit code sets   *)
(* no key bit; bits 0 and 1 of byte [3] follow the two fire lines,         *)
(* whatever the key code.                                                  *)
(***************************************************************************)
C20_KeyPadDecode ==
    /\ \A c \in KeyCodes \cup ColorCodes : KeyWordOf[c] \in OneBit
    /\ \A c, d \in KeyCodes \cup ColorCodes : c # d => KeyWordOf[c] # KeyWordOf[d]
    /\ \A c \in (0..15) \ (KeyCodes \cup ColorCodes) : KeyWordOf[c] = 0
    /\ LET b    == colecovisionBuildReport(drv, TRUE, 1).buf
           code == 15 - BitAnd(pins.b2, 15)
       IN  /\ KeyWord(b) = KeyWordOf[code]
           /\ Bit(b[4], 0) <=> ~Bit(pins.b1, PB4)
           /\ Bit(b[4], 1) <=> ~Bit(pins.b2, PB4)

\* '#' held with the right fire button, after '0' alone had been reported
C20_Witness ==
    /\ 15 - BitAnd(pins.b2, 15) = 5 /\ ~Bit(pins.b2, PB4) /\ Bit(pins.b1, PB4)
    /\ reportedPins # NoSample
    /\ 15 - BitAnd(reportedPins.b2, 15) = 3 /\ Bit(reportedPins.b2, PB4)
    /\ lastOp = "update"


(***************************************************************************)
(* The Sega driver alone under the direction pad: update() with any levels *)
(* of the four direction lines, of BUTB and of the discriminator, and      *)
(* buildReport(), in any order.                                            *)
(***************************************************************************)
\* RIGHT, the discriminator, UP, BUTB, DOWN, LEFT in SegaLines
SegaDirLines == {1, 2, 7, 9, 10, 11}

SegaDirSamples == {SegaSample(low) : low \in SUBSET SegaDirLines}

SegaDirUpdate ==
    /\ \E smp \in SegaDirSamples :
         /\ drv' = SegaUpdate(drv, smp)
         /\ pins' = smp
    /\ lastOp' = "update"
    /\ UNCHANGED <<reportedPins, notDrvVars>>

NextSegaDir == SegaDirUpdate \/ DrvBuildReport

SpecSegaDir == InitSega /\ [][NextSegaDir]_vars

\* the port reads with RIGHT held and every other line idle, the
\* discriminator nibble reading d
RightAlone(d) == [SegaSample({1}) EXCEPT !.l1B = 16 + d]

(***************************************************************************)
(* C21: for every sampled state SegaBuildReport writes 4 bytes, X and Y    *)
(* each one of 0x00, 0x7F, 0xFF and 0x7F exactly when neither direction of *)
(* the axis is active; with right pressed and no other input the report is *)
(* [0xFF, 0x7F, 0x00, 0x00] for either pad type.                           *)
(***************************************************************************)
C21_SegaEncoding ==
    /\ pins # NoSample =>
         LET r == SegaBuildReport(drv, TRUE, 1)
             b == r.buf
         IN  /\ r.len = 4 /\ Len(b) = 4
             /\ b[1] \in {0, 127, 255} /\ b[2] \in {0, 127, 255}
             /\ b[1] = 127 <=> Bit(pins.h0B, PB3) /\ Bit(pins.h0B, PB2)
             /\ b[2] = 127 <=> Bit(pins.h0B, PB1) /\ Bit(pins.h0B, PB0)
             /\ pins \in {RightAlone(15), RightAlone(0)} => b = <<255, 127, 0, 0>>
    /\ \A d \in 0..15 :
         SegaBuildReport(SegaUpdate(drv, RightAlone(d)), TRUE, 1).buf
             = <<255, 127, 0, 0>>

\* right alone on a 6-button pad, sampled after up and left had been reported
C21_Witness ==
    /\ pins = RightAlone(0) /\ lastOp = "update"
    /\ reportedPins = SegaSample({7, 11})


(***************************************************************************)
(* The ColecoVision driver alone under the joystick: update() with any     *)
(* levels of the four direction lines, of the left fire line and of        *)
(* key-pad bit 3, and buildReport(), in any order.                         *)
(***************************************************************************)
\* RIGHT, left fire, key-pad bit 3, UP, DOWN, LEFT in ColecoLines
ColecoDirLines == {1, 2, 5, 7, 11, 12}

ColecoDirSamples == {ColecoSample(low) : low \in SUBSET ColecoDirLines}

ColecoDirUpdate ==
    /\ \E smp \in ColecoDirSamples :
         /\ drv' = colecovisionUpdate(drv, smp)
         /\ pins' = smp
    /\ lastOp' = "update"
    /\ UNCHANGED <<reportedPins, notDrvVars>>

NextColecoDir == ColecoDirUpdate \/ DrvBuildReport

SpecColecoDir == InitKeys /\ [][NextColecoDir]_vars

\* key-pad code 0b1000 alone: key-pad bit 3 low, bits 2..0 and both fire
\* lines high, no direction held
KeyOneAlone == BitAnd(pins.b2, 31) = 23 /\ BitAnd(pins.b1, 31) = 31

(***************************************************************************)
(* C22: for every sampled state colecovisionBuildReport writes the 5 bytes *)
(* [X][Y][wheel][buttons-lo][buttons-hi], X and Y each one of 0x00, 0x80,  *)
(* 0xFF and 0x80 exactly when neither direction of the axis is active;     *)
(* with key-pad code 0b1000 pressed alone byte [3] is 0b00000100 and byte  *)
(* [4] is 0.                                                               *)
(***************************************************************************)
C22_ColecoEncoding ==
    LET r == colecovisionBuildReport(drv, TRUE, 1)
        b == r.buf
    IN  /\ r.len = 5 /\ Len(b) = 5
        /\ b[1] \in {0, 128, 255} /\ b[2] \in {0, 128, 255}
        /\ b[1] = 128 <=> Bit(pins.b1, PB3) /\ Bit(pins.b1, PB2)
        /\ b[2] = 128 <=> Bit(pins.b1, PB1) /\ Bit(pins.b1, PB0)
        /\ b[3] = drv.wheel_pos /\ b[3] \in 0..255
        /\ b[4] \in 0..255 /\ b[5] \in 0..255
        /\ KeyOneAlone => b[4] = 4 /\ b[5] = 0

\* key 1 alone, sampled after down and left with the left fire button had
\* been reported
C22_Witness ==
    /\ KeyOneAlone /\ lastOp = "update"
    /\ reportedPins = ColecoSample({2, 11, 12})


\* the send loop is at the test of usbInterruptIsReady() for a marked id
TestsSlot == pc = "send" /\ i < num_reports(curGamepad) /\ Bit(must_report, i)

(***************************************************************************)
(* C23: whenever the main loop tests the send slot for a marked report id  *)
(* the slot is free.  The slot becomes occupied only by the loop's         *)
(* usbSetInterrupt, and the loop leaves the wait only with the slot free;  *)
(* so a marked report is never skipped, and must_report is 0 at the start  *)
(* of every iteration of the main loop.                                    *)
(***************************************************************************)
C23_SlotFreeWhenTested ==
    /\ [](TestsSlot => usbInterruptIsReady)
    /\ [](pc = "top" => must_report = 0)
    /\ [][~txBusy /\ txBusy' => pc = "send" /\ pc' = "wait"]_vars
    /\ [][pc = "wait" /\ pc' # "wait" => ~txBusy /\ ~txBusy']_vars
    /\ [][TestsSlot /\ SendStep => pc' = "wait" /\ txBusy' /\ Bit(sent', i)]_vars

\* the slot is tested for a marked report after an earlier report has been
\* sent and the host has fetched it
C23_Witness ==
    /\ TestsSlot /\ ~txBusy /\ reportBuffer # Zeros(6)
    /\ reportedPins # NoSample /\ pins # reportedPins


(***************************************************************************)
(* C24: the 8-bit idle countdown never underflows or wraps.  Under every   *)
(* sequence of idle ticks and SET_IDLE requests an entry of idleCounters   *)
(* changes only in an idle tick, either by -5 from a value above 4 or to   *)
(* the idle rate then in the table; it stays in 0..255 and never exceeds   *)
(* the largest idle rate set.                                              *)
(***************************************************************************)
C24_CountdownNoWrap ==
    /\ [](\A k \in 1..MAX_REPORTS :
            idleCounters[k] \in 0..255 /\ idleCounters[k] <= MaxRate)
    /\ [][\A k \in 1..MAX_REPORTS :
            idleCounters'[k] # idleCounters[k] =>
                /\ pc = "idle" /\ TOV0 /\ idleRates[k] # 0
                /\ IF idleCounters[k] > 4
                   THEN idleCounters'[k] = idleCounters[k] - 5
                   ELSE idleCounters'[k] = idleRates[k]]_vars

\* a countdown above its idle rate: the host has lowered the rate since the
\* countdown was loaded, and the next idle tick is due
C24_Witness ==
    /\ idleRates[1] # 0 /\ idleCounters[1] > idleRates[1]
    /\ pc = "idle" /\ TOV0


(***************************************************************************)
(* C25: no stale report for the Sega driver.  After a SegaUpdate that      *)
(* leaves the driver in a state of which SegaBuildReport would write bytes *)
(* other than those of the last report built, SegaChanged is true; in      *)
(* particular when only the 3-vs-6 discriminator changed between the two   *)
(* updates.                                                                *)
(***************************************************************************)
C25_NoStaleSegaReport ==
    (lastOp = "update" /\ reportedPins # NoSample) =>
        LET built == SegaReportBytes(SegaUpdate(SegaInitState, reportedPins))
        IN  SegaReportBytes(drv) # built => SegaChanged(drv, 1)


(***************************************************************************)
(* C26: bounded response to a new idle rate.  After a SET_IDLE that sets   *)
(* the rate of report id 1 to N # 0, and until the idle tick has marked    *)
(* the id as forced under that rate, the idle ticks still to come before   *)
(* the mark (one per 5 units of the countdown, and the one that marks) are *)
(* at most N \div 5 + 1, whatever the countdown was; for N below 5 the     *)
(* first idle tick served after the SET_IDLE marks the id.                 *)
(***************************************************************************)
C26_NewRateBoundedResponse ==
    /\ [](idleRates[1] # 0 /\ forcedAge = -1 =>
            idleCounters[1] \div 5 + 1 <= idleRates[1] \div 5 + 1)
    /\ [][(pc = "idle" /\ TOV0 /\ pc' = "pollctl"
           /\ idleRates[1] \in 1..4 /\ forcedAge = -1) =>
             Bit(markForced', 0) /\ forcedAge' = 0]_vars

====
